---- MODULE Spec2Model ----
(***************************************************************************)
(* Lease-vs-buy calculator: the financial core (src/calc.py), the linear   *)
(* depreciation helper and the month-by-month horizon projection of        *)
(* main() (src/app.py).                                                    *)
(*                                                                         *)
(* Numbers.  The program computes in Python floats.  Here a number is      *)
(* <<n, d, k>>, standing for (n / d) * Eps^k: an exact fraction n / d in   *)
(* lowest terms with d > 0, scaled by a power of Eps, a positive float so  *)
(* small (1e-30, say) that a sum of two floats whose powers of Eps differ  *)
(* is, in IEEE double arithmetic, exactly the larger of the two: the other *)
(* lies below half a unit in its last place and is absorbed.  So           *)
(* 1 + Eps/1200 = 1, as in the program.  Apart from this absorption the    *)
(* arithmetic is exact: the rounding of the last digit of a result is not  *)
(* represented (two association orders of a sum agree, a balance at term   *)
(* end is exactly 0).  A raised ZeroDivisionError is the value <<0, 0, 0>>,*)
(* which every operation propagates.                                       *)
(***************************************************************************)
EXTENDS Integers, Sequences, FiniteSets, TLC

\* ------------------------------------------------------------------------
\* Arithmetic standing for Python float arithmetic
\* ------------------------------------------------------------------------

Abs(n) == IF n < 0 THEN -n ELSE n

RECURSIVE GCD(_, _)
GCD(a, b) == IF b = 0 THEN a ELSE GCD(b, a % b)

ZeroDivisionError == <<0, 0, 0>>

Raised(x) == x[2] = 0

Norm(n, d, k) ==
    IF d = 0 THEN ZeroDivisionError
    ELSE IF n = 0 THEN <<0, 1, 0>>
    ELSE LET g == GCD(Abs(n), Abs(d))
             s == IF d < 0 THEN -1 ELSE 1
         IN  <<(s * n) \div g, Abs(d) \div g, k>>

R(n) == <<n, 1, 0>>

Q(n, d) == Norm(n, d, 0)

Zero == R(0)

\* a positive float below the rounding threshold of every float of ordinary
\* size, such as 1e-30
Eps == <<1, 1, 1>>

RAdd(a, b) ==
    IF Raised(a) \/ Raised(b) THEN ZeroDivisionError
    ELSE IF a[1] = 0 THEN b
    ELSE IF b[1] = 0 THEN a
    ELSE IF a[3] < b[3] THEN a
    ELSE IF b[3] < a[3] THEN b
    ELSE LET g == GCD(a[2], b[2])
         IN  Norm(a[1] * (b[2] \div g) + b[1] * (a[2] \div g), (a[2] \div g) * b[2], a[3])

RNeg(a) == IF Raised(a) THEN ZeroDivisionError ELSE <<-a[1], a[2], a[3]>>

RSub(a, b) == RAdd(a, RNeg(b))

RMul(a, b) ==
    IF Raised(a) \/ Raised(b) THEN ZeroDivisionError
    ELSE LET g1 == GCD(Abs(a[1]), b[2])
             g2 == GCD(Abs(b[1]), a[2])
         IN  Norm((a[1] \div g1) * (b[1] \div g2), (a[2] \div g2) * (b[2] \div g1),
                  a[3] + b[3])

RDiv(a, b) ==
    IF Raised(a) \/ Raised(b) \/ b[1] = 0 THEN ZeroDivisionError
    ELSE RMul(a, Norm(b[2], b[1], -b[3]))

\* a < b and a <= b: the sign of a - b, which the absorbed term cannot change
RLt(a, b) == ~Raised(a) /\ ~Raised(b) /\ RSub(a, b)[1] < 0

RLe(a, b) == ~Raised(a) /\ ~Raised(b) /\ RSub(a, b)[1] <= 0

\* Python max(a, b) on numbers
RMax(a, b) ==
    IF Raised(a) \/ Raised(b) THEN ZeroDivisionError
    ELSE IF RLt(a, b) THEN b ELSE a

IMax(a, b) == IF b > a THEN b ELSE a

IMin(a, b) == IF b < a THEN b ELSE a

\* x ** k for an integer k
RECURSIVE RPow(_, _)
RPow(x, k) ==
    IF k = 0 THEN R(1)
    ELSE IF k < 0 THEN RDiv(R(1), RPow(x, -k))
    ELSE RMul(x, RPow(x, k - 1))

\* floor of a number of ordinary size
RFloor(x) == x[1] \div x[2]

\* round(x, 0) and round(x, 2) of Python, as an integer number of units and
\* of hundredths (ties go to the even neighbour)
RoundUnits(x) ==
    LET f == RFloor(x)
        twice == RSub(RMul(R(2), x), R(2 * f))
    IN  IF RLt(twice, R(1)) THEN f
        ELSE IF RLt(R(1), twice) THEN f + 1
        ELSE IF f % 2 = 0 THEN f ELSE f + 1

RoundHundredths(x) == RoundUnits(RMul(R(100), x))

\* ------------------------------------------------------------------------
\* Naturals of any size, as sequences of base-10000 digits, least significant
\* first and without leading zeros, for the powers (1 + r) ** 60 that do not
\* fit a machine integer
\* ------------------------------------------------------------------------

RECURSIVE WideOf(_)
WideOf(n) == IF n = 0 THEN <<>> ELSE <<n % 10000>> \o WideOf(n \div 10000)

\* a * k + carry for a machine integer k < 200000
RECURSIVE WideTimes(_, _, _)
WideTimes(a, k, carry) ==
    IF a = <<>> THEN WideOf(carry)
    ELSE LET t == a[1] * k + carry
         IN  <<t % 10000>> \o WideTimes(Tail(a), k, t \div 10000)

RECURSIVE WideTrim(_)
WideTrim(a) ==
    IF a = <<>> THEN a
    ELSE IF a[Len(a)] = 0 THEN WideTrim(SubSeq(a, 1, Len(a) - 1))
    ELSE a

\* a - b for a >= b
RECURSIVE WideMinusDigits(_, _, _)
WideMinusDigits(a, b, borrow) ==
    IF a = <<>> THEN <<>>
    ELSE LET bd == IF b = <<>> THEN 0 ELSE b[1]
             t == a[1] - bd - borrow
         IN  <<IF t < 0 THEN t + 10000 ELSE t>>
                \o WideMinusDigits(Tail(a), IF b = <<>> THEN b ELSE Tail(b),
                                   IF t < 0 THEN 1 ELSE 0)

WideMinus(a, b) == WideTrim(WideMinusDigits(a, b, 0))

RECURSIVE WideLessFrom(_, _, _)
WideLessFrom(a, b, i) ==
    IF i = 0 THEN FALSE
    ELSE IF a[i] # b[i] THEN a[i] < b[i]
    ELSE WideLessFrom(a, b, i - 1)

WideLess(a, b) ==
    IF Len(a) # Len(b) THEN Len(a) < Len(b) ELSE WideLessFrom(a, b, Len(a))

\* b ** n for a machine integer b < 400, two factors at a time
RECURSIVE WidePow(_, _)
WidePow(b, n) ==
    IF n = 0 THEN <<1>>
    ELSE IF n = 1 THEN <<b>>
    ELSE WideTimes(WidePow(b, n - 2), b * b, 0)

\* the largest q in lo..hi with b * q <= a (b * lo <= a is given)
RECURSIVE WideQuotient(_, _, _, _)
WideQuotient(a, b, lo, hi) ==
    IF lo = hi THEN lo
    ELSE LET mid == (lo + hi + 1) \div 2
         IN  IF WideLess(a, WideTimes(b, mid, 0))
             THEN WideQuotient(a, b, lo, mid - 1)
             ELSE WideQuotient(a, b, mid, hi)

\* round(num / den, 0) of Python for a quotient below 2 ** 15
WideRoundUnits(num, den) ==
    LET twice == WideTimes(num, 2, 0)
        q == WideQuotient(twice, den, 0, 65535)
    IN  IF q % 2 = 0 THEN q \div 2
        ELSE IF WideTimes(den, q, 0) = twice
             THEN (IF ((q - 1) \div 2) % 2 = 0 THEN (q - 1) \div 2 ELSE (q + 1) \div 2)
             ELSE (q + 1) \div 2

\* ------------------------------------------------------------------------
\* Python floats (IEEE 754 binary64) where a result is compared bit for bit:
\* <<sign, M, e>> is sign * M * 2 ** e with the 53-bit mantissa M a wide
\* natural, 2 ** 52 <= M < 2 ** 53 (zero is <<1, <<>>, 0>>). The values met
\* are far from the subnormal and the overflow range.
\* ------------------------------------------------------------------------

\* <<quotient, remainder>> of the digits a[1..i] by a machine integer
\* 0 < q < 200000, the remainder of the higher digits carried in
RECURSIVE WideDivFrom(_, _, _, _)
WideDivFrom(a, q, i, carry) ==
    IF i = 0 THEN <<<<>>, carry>>
    ELSE LET t == carry * 10000 + a[i]
             low == WideDivFrom(a, q, i - 1, t % q)
         IN  <<low[1] \o <<t \div q>>, low[2]>>

WideDiv(a, q) ==
    LET qr == WideDivFrom(a, q, Len(a), 0) IN <<WideTrim(qr[1]), qr[2]>>

MantissaBits == 53

TwoToThe52 == WidePow(2, MantissaBits - 1)

TwoToThe53 == WidePow(2, MantissaBits)

\* the float nearest to sign * (P / q) * 2 ** e, ties to the even mantissa
RECURSIVE RoundToFloat(_, _, _, _)
RoundToFloat(sign, P, q, e) ==
    IF P = <<>> THEN <<1, <<>>, 0>>
    ELSE IF WideLess(WideTimes(P, 256, 0), WideTimes(TwoToThe52, q, 0))
    THEN RoundToFloat(sign, WideTimes(P, 256, 0), q, e - 8)
    ELSE IF WideLess(P, WideTimes(TwoToThe52, q, 0))
    THEN RoundToFloat(sign, WideTimes(P, 2, 0), q, e - 1)
    ELSE IF ~WideLess(P, WideTimes(TwoToThe53, q, 0))
    THEN RoundToFloat(sign, P, 2 * q, e + 1)
    ELSE LET qr == WideDiv(P, q)
             up == \/ 2 * qr[2] > q
                   \/ 2 * qr[2] = q /\ qr[1][1] % 2 = 1
             M == IF up THEN WideTrim(WideTimes(qr[1], 1, 1)) ELSE qr[1]
         IN  IF M = TwoToThe53 THEN <<sign, TwoToThe52, e + 1>>
             ELSE <<sign, M, e>>

\* the float a decimal literal p / q denotes (q a power of ten)
Float(p, q) == RoundToFloat(IF p < 0 THEN -1 ELSE 1, WideOf(Abs(p)), q, 0)

\* x * k and x / k for a float x and a float k that is a whole number
FloatTimes(x, k) == RoundToFloat(x[1], WideTimes(x[2], k, 0), 1, x[3])

FloatOver(x, k) == RoundToFloat(x[1], x[2], k, x[3])

\* ------------------------------------------------------------------------
\* src/calc.py
\* ------------------------------------------------------------------------

monthly_loan_payment(loan_amount, apr_percent, term_months) ==
    IF term_months <= 0 \/ ~RLt(Zero, loan_amount) THEN Zero
    ELSE LET r == RDiv(RDiv(apr_percent, R(100)), R(12))
         IN  IF r = Zero THEN RDiv(loan_amount, R(term_months))
             ELSE LET pw == RPow(RAdd(R(1), r), term_months)
                  IN  RDiv(RMul(loan_amount, RMul(r, pw)), RSub(pw, R(1)))

\* monthly_loan_payment for integer arguments with loan_amount > 0,
\* apr_percent > 0, term_months > 0, where the powers need wide naturals; the
\* result is <<numerator, denominator>>.  With r = apr_percent / 100 / 12 =
\* a / b in lowest terms, (1 + r) ** n = P / Q for P = (a + b) ** n and
\* Q = b ** n, and loan_amount * (r * P / Q) / (P / Q - 1) =
\* loan_amount * a * P / (b * (P - Q)).
monthly_loan_payment_wide(loan_amount, apr_percent, term_months) ==
    LET r == RDiv(RDiv(R(apr_percent), R(100)), R(12))
        P == WidePow(r[1] + r[2], term_months)
        Qn == WidePow(r[2], term_months)
    IN  <<WideTimes(WideTimes(P, r[1], 0), loan_amount, 0),
          WideTimes(WideMinus(P, Qn), r[2], 0)>>

\* the principal repaid so far is returned, not the principal still owed
remaining_loan_balance_repaid(loan_amount, apr_percent, term_months, months_elapsed) ==
    LET k == IMax(0, IMin(months_elapsed, term_months))
    IN  IF term_months <= 0 \/ ~RLt(Zero, loan_amount) THEN Zero
        ELSE LET r == RDiv(RDiv(apr_percent, R(100)), R(12))
                 payment == monthly_loan_payment(loan_amount, apr_percent, term_months)
             IN  IF r = Zero
                 THEN RSub(loan_amount, RMax(Zero, RSub(loan_amount, RMul(payment, R(k)))))
                 ELSE LET factor == RPow(RAdd(R(1), r), k)
                          balance == RSub(RMul(loan_amount, factor),
                                          RDiv(RMul(payment, RSub(factor, R(1))), r))
                      IN  RSub(loan_amount, RMax(Zero, balance))

remaining_loan_balance(loan_amount, apr_percent, term_months, months_elapsed) ==
    LET k == IMax(0, IMin(months_elapsed, term_months))
    IN  IF term_months <= 0 \/ ~RLt(Zero, loan_amount) THEN Zero
        ELSE LET r == RDiv(RDiv(apr_percent, R(100)), R(12))
                 payment == monthly_loan_payment(loan_amount, apr_percent, term_months)
             IN  IF r = Zero
                 THEN RMax(Zero, RSub(loan_amount, RMul(payment, R(k))))
                 ELSE LET factor == RPow(RAdd(R(1), r), k)
                          balance == RSub(RMul(loan_amount, factor),
                                          RDiv(RMul(payment, RSub(factor, R(1))), r))
                      IN  RMax(Zero, balance)

\* the finance fee is charged on the depreciation, not on cap cost + residual
lease_payment_from_mf_on_depreciation(cap_cost, residual_value, money_factor, term_months) ==
    IF term_months <= 0 \/ ~RLt(Zero, cap_cost) THEN Zero
    ELSE LET depreciation_fee == RDiv(RSub(cap_cost, residual_value), R(term_months))
             finance_fee == RMul(RSub(cap_cost, residual_value), money_factor)
         IN  RAdd(depreciation_fee, finance_fee)

lease_payment_from_mf(cap_cost, residual_value, money_factor, term_months) ==
    IF term_months <= 0 \/ ~RLt(Zero, cap_cost) THEN Zero
    ELSE LET depreciation_fee == RDiv(RSub(cap_cost, residual_value), R(term_months))
             finance_fee == RMul(RAdd(cap_cost, residual_value), money_factor)
         IN  RAdd(depreciation_fee, finance_fee)

\* the divisor of the monthly rate is taken for that of the money factor
apr_to_money_factor_per_month(apr_percent) == FloatOver(apr_percent, 1200)

apr_to_money_factor(apr_percent) == FloatOver(apr_percent, 2400)

\* ------------------------------------------------------------------------
\* src/app.py: linear depreciation helper
\* ------------------------------------------------------------------------

\* the month is not clamped into [0, horizon_months]
linear_depreciation_value_unclamped(initial_value, end_value, horizon_months, month) ==
    IF horizon_months <= 0 THEN end_value
    ELSE LET slope == RDiv(RSub(end_value, initial_value), R(horizon_months))
         IN  RAdd(initial_value, RMul(slope, R(month)))

linear_depreciation_value(initial_value, end_value, horizon_months, month) ==
    IF horizon_months <= 0 THEN end_value
    ELSE LET mo == IMax(0, month)
             slope == RDiv(RSub(end_value, initial_value), R(horizon_months))
         IN  RAdd(initial_value, RMul(slope, R(IMin(mo, horizon_months))))

\* the rows of build_amortization_schedule from month m on (lines 82-100)
RECURSIVE amortization_rows(_, _, _, _, _)
amortization_rows(balance, r, term_months, monthly_payment, m) ==
    IF m > term_months THEN <<>>
    ELSE LET interest == IF RLt(Zero, r) THEN RMul(balance, r) ELSE Zero
             due == RSub(monthly_payment, interest)
             principal == IF RLt(due, Zero) THEN Zero ELSE due
             new_balance == RMax(Zero, RSub(balance, principal))
         IN  <<[Month |-> m,
                Payment |-> monthly_payment,
                Principal |-> principal,
                Interest |-> interest,
                Remaining_balance |-> new_balance]>>
                 \o amortization_rows(new_balance, r, term_months, monthly_payment, m + 1)

\* the annual rate is charged every month
build_amortization_schedule_annual_rate(loan_amount, apr_percent, term_months, monthly_payment) ==
    LET r == IF term_months > 0 THEN RDiv(apr_percent, R(100)) ELSE Zero
    IN  amortization_rows(loan_amount, r, term_months, monthly_payment, 1)

build_amortization_schedule(loan_amount, apr_percent, term_months, monthly_payment) ==
    LET r == IF term_months > 0 THEN RDiv(RDiv(apr_percent, R(100)), R(12)) ELSE Zero
    IN  amortization_rows(loan_amount, r, term_months, monthly_payment, 1)

\* ------------------------------------------------------------------------
\* src/app.py main(): scalar calculations and the projection loop body
\* ------------------------------------------------------------------------

\* None of Python: using it in arithmetic raises
None == <<1, 0, 0>>

\* total_purchase_cost (lines 594-596)
purchase_cost(price, fees, tax_rate) ==
    LET taxable_amount == RAdd(price, fees)
        total_tax == RMul(taxable_amount, RDiv(tax_rate, R(100)))
    IN  RAdd(taxable_amount, total_tax)

mileage_penalty_of_unfloored(allowed, expected, fee, term) ==
    LET lease_years == RDiv(R(term), R(12))
        total_allowed_miles == RMul(R(allowed), lease_years)
        total_expected_miles == RMul(R(expected), lease_years)
        excess_miles == RSub(total_expected_miles, total_allowed_miles)
    IN  RMul(excess_miles, fee)

\* mileage_penalty (lines 614-618)
mileage_penalty_of(allowed, expected, fee, term) ==
    LET lease_years == RDiv(R(term), R(12))
        total_allowed_miles == RMul(R(allowed), lease_years)
        total_expected_miles == RMul(R(expected), lease_years)
        excess_miles == RMax(Zero, RSub(total_expected_miles, total_allowed_miles))
    IN  RMul(excess_miles, fee)

\* net_cost_lease_full_term (lines 620-623)
lease_full_term(drive, monthly, term, penalty, fee) ==
    RAdd(RAdd(RAdd(drive, RMul(monthly, R(term))), penalty), fee)

\* the balance still owed is treated as a credit
net_cost_buy_m_subtracts_balance(down, payment, loan, apr, loan_term, price, end_value, horizon, m) ==
    LET payments_made == RMul(payment, R(IMin(m, loan_term)))
        remaining_bal == remaining_loan_balance(loan, apr, loan_term, m)
        value_m == linear_depreciation_value(price, end_value, horizon, m)
    IN  RSub(RSub(RAdd(down, payments_made), remaining_bal), value_m)

\* buy branch of the loop body (lines 633-640)
net_cost_buy_m(down, payment, loan, apr, loan_term, price, end_value, horizon, m) ==
    LET payments_made == RMul(payment, R(IMin(m, loan_term)))
        remaining_bal == remaining_loan_balance(loan, apr, loan_term, m)
        value_m == linear_depreciation_value(price, end_value, horizon, m)
    IN  RSub(RAdd(RAdd(down, payments_made), remaining_bal), value_m)

\* the lease keeps charging the monthly payment after it has ended
lease_cost_m_keeps_paying(drive, monthly, term, penalty, fee, full_term, m) ==
    IF m <= term
    THEN LET base == RAdd(drive, RMul(monthly, R(m)))
         IN  IF m = term THEN RAdd(base, RAdd(penalty, fee)) ELSE base
    ELSE RAdd(RAdd(drive, RMul(monthly, R(m))), RAdd(penalty, fee))

\* the end-of-lease charges are spread over the months of the lease
lease_cost_m_prorated(drive, monthly, term, penalty, fee, full_term, m) ==
    IF m <= term
    THEN RAdd(RAdd(drive, RMul(monthly, R(m))),
              RDiv(RMul(RAdd(penalty, fee), R(m)), R(term)))
    ELSE full_term

\* lease branch of the loop body (lines 644-650)
lease_cost_m(drive, monthly, term, penalty, fee, full_term, m) ==
    IF m <= term
    THEN LET base == RAdd(drive, RMul(monthly, R(m)))
         IN  IF m = term THEN RAdd(base, RAdd(penalty, fee)) ELSE base
    ELSE full_term

\* the two verdicts are swapped
recommendation_for_swapped(d) ==
    IF RLt(Zero, d) THEN "buying cheaper"
    ELSE IF RLt(d, Zero) THEN "leasing cheaper"
    ELSE "tie"

\* the message chosen from diff (lines 718-731)
recommendation_for(d) ==
    IF RLt(Zero, d) THEN "leasing cheaper"
    ELSE IF RLt(d, Zero) THEN "buying cheaper"
    ELSE "tie"

\* ------------------------------------------------------------------------
\* State
\* ------------------------------------------------------------------------

VARIABLES
    pc,
    \* inputs read from the form
    is_advanced, horizon_months, tax_rate_global, purchase_price, buy_fees,
    down_payment_buy, loan_apr, loan_term_months, expected_value_pct,
    lease_term_months, msrp, cap_cost, residual_pct, lease_tax_rate, drive_off,
    money_factor, disposition_fee, allowed_miles_per_year,
    expected_miles_per_year, excess_mileage_fee,
    \* computed by main()
    lease_monthly_with_tax, total_purchase_cost, loan_amount,
    buy_monthly_payment, end_value_at_horizon, mileage_penalty,
    total_lease_payments_term, net_cost_lease_full_term,
    months, buy_net_cost_by_month, lease_net_cost_by_month,
    net_cost_buy, net_cost_lease_at_horizon, messages,
    \* a direct call of one library function: its name, arguments and result
    fn, args, ret

inputs ==
    <<is_advanced, horizon_months, tax_rate_global, purchase_price, buy_fees,
      down_payment_buy, loan_apr, loan_term_months, expected_value_pct,
      lease_term_months, msrp, cap_cost, residual_pct, lease_tax_rate, drive_off,
      money_factor, disposition_fee, allowed_miles_per_year,
      expected_miles_per_year, excess_mileage_fee>>

buy_scalars == <<total_purchase_cost, loan_amount, buy_monthly_payment, end_value_at_horizon>>

lease_scalars ==
    <<lease_monthly_with_tax, mileage_penalty, total_lease_payments_term,
      net_cost_lease_full_term>>

series == <<months, buy_net_cost_by_month, lease_net_cost_by_month>>

outcome == <<net_cost_buy, net_cost_lease_at_horizon, messages>>

call == <<fn, args, ret>>

vars == <<pc, inputs, buy_scalars, lease_scalars, series, outcome, call>>

\* ------------------------------------------------------------------------
\* Inputs of the form that the projection is explored on
\* ------------------------------------------------------------------------

MaxHorizonYears == 2

MinLoanTerm == 12

MinLeaseTerm == 12

HorizonYears == 1..MaxHorizonYears

TaxRates == {R(0), R(25)}

PurchasePrices == {R(4)}

DownPayments == {R(1), R(9)}

LoanAprs == {R(0), Eps, R(1200)}

LoanTerms == {MinLoanTerm, MinLoanTerm + 1}

ExpectedValuePcts == {50}

LeaseTerms == {MinLeaseTerm, MinLeaseTerm + 6, 2 * MinLeaseTerm}

DriveOffs == {R(0), R(2)}

SimpleLeasePayments == {Q(1, 2)}

DispositionFees == {R(1)}

AllowedMiles == {12000}

ExpectedMiles == {10000, 12048}

ExcessMileageFees == {Q(1, 4)}

AdvancedBuyFees == {R(1)}

Msrps == {R(10)}

CapCosts == {R(0), R(76)}

ResidualPcts == {40}

LeaseTaxRates == {R(50)}

MoneyFactors == {Q(1, 80)}

NoCall == fn = "none" /\ args = <<>> /\ ret = Zero

Init ==
    /\ pc = "validate"
    /\ is_advanced \in BOOLEAN
    /\ horizon_months \in {12 * y : y \in HorizonYears}
    /\ tax_rate_global \in TaxRates
    /\ purchase_price \in PurchasePrices
    /\ buy_fees \in (IF is_advanced THEN AdvancedBuyFees ELSE {Zero})
    /\ down_payment_buy \in DownPayments
    /\ loan_apr \in LoanAprs
    /\ loan_term_months \in LoanTerms
    /\ expected_value_pct \in ExpectedValuePcts
    /\ lease_term_months \in LeaseTerms
    /\ msrp \in (IF is_advanced THEN Msrps ELSE {None})
    /\ cap_cost \in (IF is_advanced THEN CapCosts ELSE {None})
    /\ residual_pct \in (IF is_advanced THEN ResidualPcts ELSE {0})
    /\ lease_tax_rate \in (IF is_advanced THEN LeaseTaxRates ELSE {Zero})
    /\ drive_off \in DriveOffs
    /\ money_factor \in (IF is_advanced THEN MoneyFactors ELSE {None})
    /\ disposition_fee \in DispositionFees
    /\ allowed_miles_per_year \in AllowedMiles
    /\ expected_miles_per_year \in ExpectedMiles
    /\ excess_mileage_fee \in ExcessMileageFees
    /\ lease_monthly_with_tax \in (IF is_advanced THEN {None} ELSE SimpleLeasePayments)
    /\ total_purchase_cost = Zero
    /\ loan_amount = Zero
    /\ buy_monthly_payment = Zero
    /\ end_value_at_horizon = Zero
    /\ mileage_penalty = Zero
    /\ total_lease_payments_term = Zero
    /\ net_cost_lease_full_term = Zero
    /\ months = <<>>
    /\ buy_net_cost_by_month = <<>>
    /\ lease_net_cost_by_month = <<>>
    /\ net_cost_buy = Zero
    /\ net_cost_lease_at_horizon = Zero
    /\ messages = <<>>
    /\ NoCall

\* ------------------------------------------------------------------------
\* main(), step by step
\* ------------------------------------------------------------------------

validate_positive(value) == ~RLt(value, Zero)

validate_percentage(value) == ~(value < 0 \/ value > 100)

validate_nonzero(value) == value # 0

\* lines 573-590: every validator passes, or the run stops before computing
Validate ==
    /\ pc = "validate"
    /\ validate_positive(purchase_price)
    /\ validate_positive(down_payment_buy)
    /\ validate_positive(loan_apr)
    /\ validate_nonzero(loan_term_months)
    /\ validate_percentage(expected_value_pct)
    /\ validate_positive(R(lease_term_months))
    /\ validate_positive(R(allowed_miles_per_year))
    /\ validate_positive(excess_mileage_fee)
    /\ validate_positive(disposition_fee)
    /\ IF is_advanced
       THEN /\ validate_positive(msrp)
            /\ validate_positive(cap_cost)
            /\ validate_percentage(residual_pct)
            /\ validate_positive(money_factor)
       ELSE validate_positive(lease_monthly_with_tax)
    /\ pc' = "buy"
    /\ UNCHANGED <<inputs, buy_scalars, lease_scalars, series, outcome, call>>

\* lines 594-602
BuyCalculations ==
    /\ pc = "buy"
    /\ total_purchase_cost' = purchase_cost(purchase_price, buy_fees, tax_rate_global)
    /\ loan_amount' = RMax(RSub(total_purchase_cost', down_payment_buy), Zero)
    /\ IF Raised(monthly_loan_payment(loan_amount', loan_apr, loan_term_months))
       THEN \* the exception leaves main(): nothing further is computed
            /\ pc' = "raised"
            /\ UNCHANGED <<buy_monthly_payment, end_value_at_horizon>>
       ELSE /\ buy_monthly_payment' =
                  monthly_loan_payment(loan_amount', loan_apr, loan_term_months)
            /\ end_value_at_horizon' =
                  RMul(purchase_price, RDiv(R(expected_value_pct), R(100)))
            /\ pc' = "lease"
    /\ UNCHANGED <<inputs, lease_scalars, series, outcome, call>>

\* lines 606-623
LeaseCalculations ==
    /\ pc = "lease"
    /\ lease_monthly_with_tax' =
          IF is_advanced
          THEN LET residual_value == RMul(msrp, RDiv(R(residual_pct), R(100)))
                   base_lease_monthly ==
                       lease_payment_from_mf(cap_cost, residual_value, money_factor,
                                             lease_term_months)
               IN  RMul(base_lease_monthly, RAdd(R(1), RDiv(lease_tax_rate, R(100))))
          ELSE lease_monthly_with_tax
    /\ mileage_penalty' =
          mileage_penalty_of(allowed_miles_per_year, expected_miles_per_year,
                             excess_mileage_fee, lease_term_months)
    /\ total_lease_payments_term' = RMul(lease_monthly_with_tax', R(lease_term_months))
    /\ net_cost_lease_full_term' =
          lease_full_term(drive_off, lease_monthly_with_tax', lease_term_months,
                          mileage_penalty', disposition_fee)
    /\ pc' = "months"
    /\ UNCHANGED <<inputs, buy_scalars, series, outcome, call>>

\* lines 627-629
StartProjection ==
    /\ pc = "months"
    /\ months' = [i \in 1..horizon_months |-> i]
    /\ buy_net_cost_by_month' = <<>>
    /\ lease_net_cost_by_month' = <<>>
    /\ pc' = "loop"
    /\ UNCHANGED <<inputs, buy_scalars, lease_scalars, outcome, call>>

\* lines 631-652: one iteration of "for m in months"
ProjectMonth ==
    /\ pc = "loop"
    /\ Len(buy_net_cost_by_month) < Len(months)
    /\ LET m == months[Len(buy_net_cost_by_month) + 1]
       IN  /\ buy_net_cost_by_month' =
                 Append(buy_net_cost_by_month,
                        net_cost_buy_m(down_payment_buy, buy_monthly_payment, loan_amount,
                                       loan_apr, loan_term_months, purchase_price,
                                       end_value_at_horizon, horizon_months, m))
           /\ lease_net_cost_by_month' =
                 Append(lease_net_cost_by_month,
                        lease_cost_m(drive_off, lease_monthly_with_tax, lease_term_months,
                                     mileage_penalty, disposition_fee,
                                     net_cost_lease_full_term, m))
    /\ UNCHANGED <<pc, inputs, buy_scalars, lease_scalars, months, outcome, call>>

\* lines 655-656: the loop is over; the last entries are the horizon scalars
HorizonScalars ==
    /\ pc = "loop"
    /\ Len(buy_net_cost_by_month) = Len(months)
    /\ net_cost_buy' = buy_net_cost_by_month[Len(buy_net_cost_by_month)]
    /\ net_cost_lease_at_horizon' = lease_net_cost_by_month[Len(lease_net_cost_by_month)]
    /\ pc' = "recommend"
    /\ UNCHANGED <<inputs, buy_scalars, lease_scalars, series, messages, call>>

\* lines 718-731
Recommend ==
    /\ pc = "recommend"
    /\ messages' = Append(messages, recommendation_for(RSub(net_cost_buy, net_cost_lease_at_horizon)))
    /\ pc' = "done"
    /\ UNCHANGED <<inputs, buy_scalars, lease_scalars, series, net_cost_buy,
                   net_cost_lease_at_horizon, call>>

Next ==
    \/ Validate
    \/ BuyCalculations
    \/ LeaseCalculations
    \/ StartProjection
    \/ ProjectMonth
    \/ HorizonScalars
    \/ Recommend

Spec == Init /\ [][Next]_vars

TypeOK ==
    /\ pc \in {"validate", "buy", "lease", "months", "loop", "recommend", "done", "raised"}
    /\ Len(buy_net_cost_by_month) = Len(lease_net_cost_by_month)
    /\ Len(buy_net_cost_by_month) <= horizon_months

\* ------------------------------------------------------------------------
\* Horizon projection: properties
\* ------------------------------------------------------------------------

Projected == pc \in {"loop", "recommend", "done"}

Positive(x) == ~Raised(x) /\ x[1] > 0

NonNegative(x) == ~Raised(x) /\ x[1] >= 0

\* drive_off + lease_monthly_with_tax * k
LeasePaidThrough(k) == RAdd(drive_off, RMul(lease_monthly_with_tax, R(k)))

EndOfLeaseCharges == RAdd(mileage_penalty, disposition_fee)

FullTermTotal == RAdd(LeasePaidThrough(lease_term_months), EndOfLeaseCharges)

C2_PenaltyOnceAtLeaseEnd ==
    /\ Projected =>
          \A m \in 1..Len(lease_net_cost_by_month) :
              /\ m < lease_term_months => lease_net_cost_by_month[m] = LeasePaidThrough(m)
              /\ m = lease_term_months =>
                    lease_net_cost_by_month[m] = RAdd(LeasePaidThrough(m), EndOfLeaseCharges)
              /\ m > lease_term_months =>
                    lease_net_cost_by_month[m] =
                        RAdd(LeasePaidThrough(lease_term_months), EndOfLeaseCharges)
    /\ (pc \in {"recommend", "done"} /\ horizon_months < lease_term_months) =>
          net_cost_lease_at_horizon = LeasePaidThrough(horizon_months)

C2_Witness ==
    /\ pc = "done"
    /\ horizon_months >= lease_term_months
    /\ Positive(lease_monthly_with_tax)
    /\ Positive(mileage_penalty)
    /\ Positive(disposition_fee)
    /\ lease_net_cost_by_month[lease_term_months - 1] = LeasePaidThrough(lease_term_months - 1)
    /\ lease_net_cost_by_month[lease_term_months] # LeasePaidThrough(lease_term_months)

\* the horizon is shorter than the lease and the charges are not zero
C2_ShortHorizonReached ==
    /\ pc = "done"
    /\ horizon_months < lease_term_months
    /\ Positive(EndOfLeaseCharges)

\* the owned vehicle's value on the straight line from purchase_price at
\* month 0 to end_value_at_horizon at month horizon_months
ValueOnLine(m) ==
    RAdd(purchase_price,
         RDiv(RMul(RSub(end_value_at_horizon, purchase_price), R(m)), R(horizon_months)))

C4_ScalarsAndRecommendation ==
    /\ Projected =>
          /\ months = [i \in 1..horizon_months |-> i]
          /\ Len(buy_net_cost_by_month) = Len(lease_net_cost_by_month)
          /\ Len(buy_net_cost_by_month) <= horizon_months
    /\ pc \in {"recommend", "done"} =>
          /\ Len(buy_net_cost_by_month) = horizon_months
          /\ net_cost_buy = buy_net_cost_by_month[horizon_months]
          /\ net_cost_lease_at_horizon = lease_net_cost_by_month[horizon_months]
    /\ pc # "done" => messages = <<>>
    /\ pc = "done" =>
          /\ Len(messages) = 1
          /\ LET d == RSub(net_cost_buy, net_cost_lease_at_horizon)
             IN  /\ d[1] > 0 => messages[1] = "leasing cheaper"
                 /\ d[1] < 0 => messages[1] = "buying cheaper"
                 /\ d[1] = 0 => messages[1] = "tie"

C4_Witness ==
    /\ pc = "done"
    /\ messages = <<"tie">>
    /\ net_cost_buy = net_cost_lease_at_horizon
    /\ Positive(net_cost_buy)

C4_LeasingCheaperReached == pc = "done" /\ messages = <<"leasing cheaper">>

C4_BuyingCheaperReached == pc = "done" /\ messages = <<"buying cheaper">>

LeaseComputed == pc \in {"months", "loop", "recommend", "done"}

\* C11: the mileage penalty is max(0, expected miles per year * term / 12 -
\* allowed miles per year * term / 12) * excess mileage fee: it is zero
\* whenever the expected miles do not exceed the allowed miles, it is never
\* negative, and above the allowance it is the excess miles over the lease
\* term times the fee.
C11_MileagePenalty ==
    LeaseComputed =>
        /\ NonNegative(mileage_penalty)
        /\ expected_miles_per_year <= allowed_miles_per_year =>
              mileage_penalty = Zero
        /\ expected_miles_per_year > allowed_miles_per_year =>
              RMul(mileage_penalty, R(12)) =
                  RMul(R((expected_miles_per_year - allowed_miles_per_year)
                             * lease_term_months),
                       excess_mileage_fee)

C11_Witness ==
    /\ pc = "done"
    /\ expected_miles_per_year < allowed_miles_per_year
    /\ Positive(excess_mileage_fee)
    /\ mileage_penalty = Zero

C11_ExcessMilesReached ==
    /\ pc = "done"
    /\ expected_miles_per_year > allowed_miles_per_year
    /\ Positive(mileage_penalty)

\* ------------------------------------------------------------------------
\* The library called directly: one call of one function of src/calc.py or
\* of linear_depreciation_value, on arguments from the sets below, and the
\* scenarios of src/tests/test_calculations.py
\* ------------------------------------------------------------------------

MaxTerm == 4

CalcAmounts == {R(-1), R(0), R(1), R(3)}

CalcAprs == {R(-2400), R(0), Eps, R(300), R(600), R(1200)}

CalcTerms == -1..MaxTerm

CalcMonths == -1..(MaxTerm + 1)

\* year-long loans, at the rates whose powers stay small
LongTerms == {MinLoanTerm, MinLoanTerm + 1}

LongAprs == {R(0), R(1200)}

LongMonths == {-1, 0, 1, 11, 12, 13, 14}

CalcResiduals == {R(0), R(2), R(5)}

CalcMoneyFactors == {R(0), Q(1, 80)}

CalcValues == {R(0), R(2), R(8)}

CalcPayments == {R(0), R(1)}

\* APRs in percent, as floats: 0, 2.4, 3, 5, 7.9, -2.4
AprPercents ==
    {Float(0, 1), Float(24, 10), Float(3, 1), Float(5, 1), Float(79, 10), Float(-24, 10)}

\* money factors implied by a known payment: 0.001, 0.00125, 0.0025, 0.00717
ImpliedMoneyFactors ==
    {Float(1, 1000), Float(125, 100000), Float(25, 10000), Float(717, 100000)}

InitCalc ==
    /\ pc = "library"
    /\ is_advanced = FALSE
    /\ horizon_months = 12
    /\ tax_rate_global = Zero
    /\ purchase_price = Zero
    /\ buy_fees = Zero
    /\ down_payment_buy = Zero
    /\ loan_apr = Zero
    /\ loan_term_months = MinLoanTerm
    /\ expected_value_pct = 50
    /\ lease_term_months = MinLeaseTerm
    /\ msrp = None
    /\ cap_cost = None
    /\ residual_pct = 0
    /\ lease_tax_rate = Zero
    /\ drive_off = Zero
    /\ money_factor = None
    /\ disposition_fee = Zero
    /\ allowed_miles_per_year = 12000
    /\ expected_miles_per_year = 12000
    /\ excess_mileage_fee = Zero
    /\ lease_monthly_with_tax = Zero
    /\ total_purchase_cost = Zero
    /\ loan_amount = Zero
    /\ buy_monthly_payment = Zero
    /\ end_value_at_horizon = Zero
    /\ mileage_penalty = Zero
    /\ total_lease_payments_term = Zero
    /\ net_cost_lease_full_term = Zero
    /\ months = <<>>
    /\ buy_net_cost_by_month = <<>>
    /\ lease_net_cost_by_month = <<>>
    /\ net_cost_buy = Zero
    /\ net_cost_lease_at_horizon = Zero
    /\ messages = <<>>
    /\ NoCall

rest == <<pc, inputs, buy_scalars, lease_scalars, series, outcome>>

Call_monthly_loan_payment ==
    /\ fn = "none"
    /\ \E L \in CalcAmounts, n \in CalcTerms \cup LongTerms :
       \E apr \in (IF n \in LongTerms THEN LongAprs ELSE CalcAprs) :
          /\ fn' = "monthly_loan_payment"
          /\ args' = <<L, apr, n>>
          /\ ret' = monthly_loan_payment(L, apr, n)
    /\ UNCHANGED rest

Call_remaining_loan_balance ==
    /\ fn = "none"
    /\ \E L \in CalcAmounts, n \in CalcTerms \cup LongTerms :
       \E apr \in (IF n \in LongTerms THEN LongAprs ELSE CalcAprs),
          k \in (IF n \in LongTerms THEN LongMonths ELSE CalcMonths) :
          /\ fn' = "remaining_loan_balance"
          /\ args' = <<L, apr, n, k>>
          /\ ret' = remaining_loan_balance(L, apr, n, k)
    /\ UNCHANGED rest

Call_lease_payment_from_mf ==
    /\ fn = "none"
    /\ \E c \in CalcAmounts, res \in CalcResiduals, mf \in CalcMoneyFactors, n \in CalcTerms :
          /\ fn' = "lease_payment_from_mf"
          /\ args' = <<c, res, mf, n>>
          /\ ret' = lease_payment_from_mf(c, res, mf, n)
    /\ UNCHANGED rest

Call_linear_depreciation_value ==
    /\ fn = "none"
    /\ \E v0 \in CalcValues, v1 \in CalcValues, H \in CalcTerms, mo \in CalcMonths :
          /\ fn' = "linear_depreciation_value"
          /\ args' = <<v0, v1, H, mo>>
          /\ ret' = linear_depreciation_value(v0, v1, H, mo)
    /\ UNCHANGED rest

\* test_monthly_loan_payment_zero_interest: the value compared with 1000
Test_monthly_loan_payment_zero_interest ==
    /\ fn = "none"
    /\ fn' = "test_monthly_loan_payment_zero_interest"
    /\ args' = <<R(12000), R(0), 12>>
    /\ ret' = monthly_loan_payment(R(12000), R(0), 12)
    /\ UNCHANGED rest

\* test_monthly_loan_payment_positive: round(payment, 0), compared with 377
Test_monthly_loan_payment_positive ==
    /\ fn = "none"
    /\ fn' = "test_monthly_loan_payment_positive"
    /\ args' = <<R(20000), R(5), 60>>
    /\ LET payment == monthly_loan_payment_wide(20000, 5, 60)
       IN  ret' = R(WideRoundUnits(payment[1], payment[2]))
    /\ UNCHANGED rest

\* test_lease_payment_formula: round(payment, 2) in hundredths, compared
\* with round(333.33 + 48, 2)
Test_lease_payment_formula ==
    /\ fn = "none"
    /\ fn' = "test_lease_payment_formula"
    /\ args' = <<R(30000), R(18000), Q(1, 1000), 36>>
    /\ ret' = R(RoundHundredths(lease_payment_from_mf(R(30000), R(18000), Q(1, 1000), 36)))
    /\ UNCHANGED rest

\* apr_to_money_factor on an APR typed in, or on the implied APR
\* mf_implied * 2400 that main() displays (src/app.py line 432)
Call_apr_to_money_factor ==
    /\ fn = "none"
    /\ \E apr \in AprPercents \cup { FloatTimes(mf, 2400) : mf \in ImpliedMoneyFactors } :
          /\ fn' = "apr_to_money_factor"
          /\ args' = <<apr>>
          /\ ret' = apr_to_money_factor(apr)
    /\ UNCHANGED rest

Test_money_factor_conversion ==
    /\ fn = "none"
    /\ fn' = "test_money_factor_conversion"
    /\ args' = <<Float(24, 10)>>
    /\ ret' = apr_to_money_factor(Float(24, 10))
    /\ UNCHANGED rest

\* build_amortization_schedule on the payment of the loan, as main() calls
\* it (src/app.py lines 774-779), or on another payment
Call_build_amortization_schedule ==
    /\ fn = "none"
    /\ \E L \in CalcAmounts, n \in CalcTerms \cup LongTerms :
       \E apr \in (IF n \in LongTerms THEN LongAprs ELSE CalcAprs) :
       \E payment \in {monthly_loan_payment(L, apr, n)} \cup CalcPayments :
          /\ ~Raised(payment)
          /\ fn' = "build_amortization_schedule"
          /\ args' = <<L, apr, n, payment>>
          /\ ret' = build_amortization_schedule(L, apr, n, payment)
    /\ UNCHANGED rest

\* the call is over; the next one starts afresh
Return ==
    /\ fn # "none"
    /\ fn' = "none"
    /\ args' = <<>>
    /\ ret' = Zero
    /\ UNCHANGED rest

NextCalc ==
    \/ Call_monthly_loan_payment
    \/ Call_remaining_loan_balance
    \/ Call_lease_payment_from_mf
    \/ Call_linear_depreciation_value
    \/ Test_monthly_loan_payment_zero_interest
    \/ Test_monthly_loan_payment_positive
    \/ Test_lease_payment_formula
    \/ Call_apr_to_money_factor
    \/ Call_build_amortization_schedule
    \/ Test_money_factor_conversion
    \/ Return

SpecCalc == InitCalc /\ [][NextCalc]_vars

\* ------------------------------------------------------------------------
\* The library: properties
\* ------------------------------------------------------------------------

\* the monthly rate apr / 100 / 12
MonthlyRate(apr) == RDiv(RDiv(apr, R(100)), R(12))

\* a rate of ordinary size: zero or not absorbed when added to 1
OrdinaryRate(apr) == apr[3] = 0

\* C5: for a valid loan (principal > 0, rate >= 0, term > 0) the balance
\* after exactly term months is 0: the loan is paid off at term end.
C5_PaidOffAtTermEnd ==
    (/\ fn = "remaining_loan_balance"
     /\ Positive(args[1])
     /\ NonNegative(args[2])
     /\ args[3] > 0
     /\ args[4] = args[3]) => ret = Zero

\* what holds of the code: the same, at the rates of ordinary size
C5_AtOrdinaryRates ==
    (/\ fn = "remaining_loan_balance"
     /\ Positive(args[1])
     /\ NonNegative(args[2])
     /\ OrdinaryRate(args[2])
     /\ args[3] > 0
     /\ args[4] = args[3]) => ret = Zero

C5_Witness ==
    /\ fn = "remaining_loan_balance"
    /\ Positive(args[1])
    /\ Positive(args[2])
    /\ args[3] >= 2
    /\ args[4] = args[3]
    /\ ret = Zero
    /\ Positive(remaining_loan_balance(args[1], args[2], args[3], args[3] - 1))

\* C6: for fixed principal, rate >= 0 and term, the balance never grows with
\* the months elapsed; the balance after 12 months of a loan with positive
\* principal is below the balance at month 0.
C6_BalanceNonIncreasing ==
    (fn = "remaining_loan_balance" /\ NonNegative(args[2])) =>
        /\ ~Raised(ret)
        /\ \A k1 \in CalcMonths \cup LongMonths :
              k1 <= args[4] =>
                  RLe(ret, remaining_loan_balance(args[1], args[2], args[3], k1))
        /\ (Positive(args[1]) /\ args[3] > 0 /\ args[4] = 12) =>
              RLt(ret, remaining_loan_balance(args[1], args[2], args[3], 0))

C6_AtOrdinaryRates ==
    (fn = "remaining_loan_balance" /\ NonNegative(args[2]) /\ OrdinaryRate(args[2])) =>
        /\ ~Raised(ret)
        /\ \A k1 \in CalcMonths \cup LongMonths :
              k1 <= args[4] =>
                  RLe(ret, remaining_loan_balance(args[1], args[2], args[3], k1))
        /\ (Positive(args[1]) /\ args[3] > 0 /\ args[4] = 12) =>
              RLt(ret, remaining_loan_balance(args[1], args[2], args[3], 0))

C6_Witness ==
    /\ fn = "remaining_loan_balance"
    /\ Positive(args[1])
    /\ Positive(args[2])
    /\ args[3] > 12
    /\ args[4] = 12
    /\ Positive(ret)
    /\ RLt(ret, remaining_loan_balance(args[1], args[2], args[3], 11))

\* C7: for term > 0 and principal > 0 the payment at rate 0 is principal /
\* term (12000 over 12 months: 1000); at a rate r > 0 per month it is the
\* annuity principal * r * (1+r)^n / ((1+r)^n - 1) (20000 at 5% over 60
\* months: 377 to the nearest unit).
C7_PaymentFormula ==
    /\ (fn = "monthly_loan_payment" /\ Positive(args[1]) /\ args[3] > 0) =>
          /\ args[2] = Zero => RMul(ret, R(args[3])) = args[1]
          /\ Positive(args[2]) =>
                LET r == MonthlyRate(args[2])
                    growth == RPow(RAdd(R(1), r), args[3])
                IN  /\ ~Raised(ret)
                    /\ RMul(ret, RSub(growth, R(1))) = RMul(args[1], RMul(r, growth))
    /\ fn = "test_monthly_loan_payment_zero_interest" => ret = R(1000)
    /\ fn = "test_monthly_loan_payment_positive" => ret = R(377)

C7_AtOrdinaryRates ==
    /\ (/\ fn = "monthly_loan_payment"
        /\ Positive(args[1])
        /\ args[3] > 0
        /\ OrdinaryRate(args[2])) =>
          /\ args[2] = Zero => RMul(ret, R(args[3])) = args[1]
          /\ Positive(args[2]) =>
                LET r == MonthlyRate(args[2])
                    growth == RPow(RAdd(R(1), r), args[3])
                IN  /\ ~Raised(ret)
                    /\ RMul(ret, RSub(growth, R(1))) = RMul(args[1], RMul(r, growth))
    /\ fn = "test_monthly_loan_payment_zero_interest" => ret = R(1000)
    /\ fn = "test_monthly_loan_payment_positive" => ret = R(377)

C7_Witness ==
    /\ fn = "monthly_loan_payment"
    /\ Positive(args[1])
    /\ Positive(args[2])
    /\ args[3] >= 2
    /\ RLt(RDiv(args[1], R(args[3])), ret)

C7_ZeroRateReached ==
    fn = "monthly_loan_payment" /\ Positive(args[1]) /\ args[2] = Zero /\ args[3] >= 2

C7_TestReached == fn = "test_monthly_loan_payment_positive" /\ ret = R(377)

\* C8: for term > 0 and cap cost > 0 the lease payment is
\* (cap cost - residual) / term + (cap cost + residual) * money factor, with
\* no tax in it (30000, 18000, 0.001, 36: 381.33).
C8_LeasePaymentFormula ==
    /\ (fn = "lease_payment_from_mf" /\ Positive(args[1]) /\ args[4] > 0) =>
          /\ ~Raised(ret)
          /\ RMul(ret, R(args[4])) =
                RAdd(RSub(args[1], args[2]),
                     RMul(RMul(RAdd(args[1], args[2]), args[3]), R(args[4])))
    /\ fn = "test_lease_payment_formula" => ret = R(38133)

C8_Witness ==
    /\ fn = "lease_payment_from_mf"
    /\ Positive(args[1])
    /\ Positive(args[2])
    /\ Positive(args[3])
    /\ args[4] >= 2
    /\ Positive(ret)

C8_TestReached == fn = "test_lease_payment_formula" /\ ret = R(38133)

\* C9: the library degrades to zero and never raises: monthly_loan_payment
\* and remaining_loan_balance return 0 when term <= 0 or principal <= 0,
\* lease_payment_from_mf returns 0 when term <= 0 or cap cost <= 0, and no
\* call with a rate >= 0 divides by zero.
C9_DegradesToZero ==
    /\ (/\ fn \in {"monthly_loan_payment", "remaining_loan_balance"}
        /\ (args[3] <= 0 \/ ~Positive(args[1]))) => ret = Zero
    /\ (/\ fn = "lease_payment_from_mf"
        /\ (args[4] <= 0 \/ ~Positive(args[1]))) => ret = Zero
    /\ (/\ fn \in {"monthly_loan_payment", "remaining_loan_balance"}
        /\ NonNegative(args[2])) => ~Raised(ret)
    /\ fn = "lease_payment_from_mf" => ~Raised(ret)

C9_AtOrdinaryRates ==
    /\ (/\ fn \in {"monthly_loan_payment", "remaining_loan_balance"}
        /\ (args[3] <= 0 \/ ~Positive(args[1]))) => ret = Zero
    /\ (/\ fn = "lease_payment_from_mf"
        /\ (args[4] <= 0 \/ ~Positive(args[1]))) => ret = Zero
    /\ (/\ fn \in {"monthly_loan_payment", "remaining_loan_balance"}
        /\ NonNegative(args[2])
        /\ OrdinaryRate(args[2])) => ~Raised(ret)
    /\ fn = "lease_payment_from_mf" => ~Raised(ret)

\* the rate that is absorbed: the call raises
C9_AbsorbedRateRaises ==
    /\ fn = "monthly_loan_payment"
    /\ Positive(args[1])
    /\ args[2] = Eps
    /\ args[3] > 0
    /\ ret = ZeroDivisionError

C9_Witness ==
    /\ fn = "monthly_loan_payment"
    /\ Positive(args[1])
    /\ args[2] = Zero
    /\ args[3] = 0
    /\ ret = Zero

\* a negative rate can reach a division by zero too
C9_NegativeRateRaises ==
    fn = "monthly_loan_payment" /\ ~NonNegative(args[2]) /\ ret = ZeroDivisionError

C10_BelowZeroReached ==
    fn = "linear_depreciation_value" /\ args[1] # args[2] /\ args[3] >= 2 /\ args[4] < 0

C10_NoHorizonReached ==
    fn = "linear_depreciation_value" /\ args[1] # args[2] /\ args[3] <= 0 /\ args[4] = 1

Negative(x) == ~Raised(x) /\ x[1] < 0

\* C12: for inputs within the data model (principal >= 0, rate >= 0,
\* term > 0; cap cost >= 0, residual value >= 0 and not required to be at
\* most the cap cost, money factor >= 0) the loan payment, the remaining
\* balance and the lease payment are never a negative amount.
C12_NonNegativeOutputs ==
    /\ (/\ fn \in {"monthly_loan_payment", "remaining_loan_balance"}
        /\ NonNegative(args[1])
        /\ NonNegative(args[2])
        /\ args[3] > 0) => ~Negative(ret)
    /\ (/\ fn = "lease_payment_from_mf"
        /\ NonNegative(args[1])
        /\ NonNegative(args[2])
        /\ NonNegative(args[3])
        /\ args[4] > 0) => ~Negative(ret)

\* what holds of the code: the two loan functions never return a negative
\* amount, and the lease payment is not negative when the residual value is
\* at most the cap cost
C12_WithinCapCost ==
    /\ (/\ fn \in {"monthly_loan_payment", "remaining_loan_balance"}
        /\ NonNegative(args[1])
        /\ NonNegative(args[2])
        /\ args[3] > 0) => ~Negative(ret)
    /\ (/\ fn = "lease_payment_from_mf"
        /\ NonNegative(args[1])
        /\ NonNegative(args[2])
        /\ RLe(args[2], args[1])
        /\ NonNegative(args[3])
        /\ args[4] > 0) => ~Negative(ret)

\* a lease whose residual value exceeds its cap cost is paid a negative amount
C12_NegativeLeasePaymentReached ==
    /\ fn = "lease_payment_from_mf"
    /\ Positive(args[1])
    /\ RLt(args[1], args[2])
    /\ NonNegative(args[3])
    /\ args[4] > 0
    /\ Negative(ret)

\* |a - b| for wide naturals
WideDistance(a, b) == IF WideLess(a, b) THEN WideMinus(b, a) ELSE WideMinus(a, b)

\* y is a float nearest to x / k: x and y have the same sign and the exact
\* quotient is at most half a unit in the last place of y away from y
NearestQuotient(y, x, k) ==
    IF x[2] = <<>> THEN y[2] = <<>>
    ELSE /\ y[2] # <<>>
         /\ y[1] = x[1]
         /\ x[3] - y[3] \in 0..17
         /\ ~WideLess(WideOf(k),
                      WideTimes(WideDistance(WideTimes(y[2], k, 0),
                                             WideTimes(x[2], 2 ^ (x[3] - y[3]), 0)),
                                2, 0))

\* the same float, or the next one above or below it in the same binade
WithinOneUlp(a, b) ==
    \/ a = b
    \/ /\ a[1] = b[1]
       /\ a[3] = b[3]
       /\ a[2] # <<>> /\ b[2] # <<>>
       /\ WideDistance(a[2], b[2]) = <<1>>

AprToMoneyFactorCalled == fn \in {"apr_to_money_factor", "test_money_factor_conversion"}

\* C13 as stated: apr_to_money_factor(apr) is apr / 2400 for every input,
\* apr_to_money_factor(2.4) == 0.001 exactly, and the function undoes the
\* conversion mf * 2400 of a money factor to the implied APR:
\* apr_to_money_factor(mf * 2400) == mf.
C13_ExactInverse ==
    AprToMoneyFactorCalled =>
        /\ NearestQuotient(ret, args[1], 2400)
        /\ args[1] = Float(24, 10) => ret = Float(1, 1000)
        /\ \A mf \in ImpliedMoneyFactors :
              args[1] = FloatTimes(mf, 2400) => ret = mf

\* C13, amended: apr_to_money_factor(apr) is the float apr / 2400 for every
\* input, apr_to_money_factor(2.4) == 0.001 exactly, and
\* apr_to_money_factor(mf * 2400) is mf or one of the two floats next to mf.
C13_InverseUpToRounding ==
    AprToMoneyFactorCalled =>
        /\ NearestQuotient(ret, args[1], 2400)
        /\ args[1] = Float(24, 10) => ret = Float(1, 1000)
        /\ \A mf \in ImpliedMoneyFactors :
              args[1] = FloatTimes(mf, 2400) => WithinOneUlp(ret, mf)

\* the implied APR of the money factor 0.00717 converts back to the float
\* next to 0.00717, not to 0.00717
C13_Witness ==
    /\ fn = "apr_to_money_factor"
    /\ args[1] = FloatTimes(Float(717, 100000), 2400)
    /\ ret # Float(717, 100000)
    /\ WithinOneUlp(ret, Float(717, 100000))

C13_TestReached ==
    /\ fn = "test_money_factor_conversion"
    /\ ret = Float(1, 1000)

C13_ExactRoundTripReached ==
    /\ fn = "apr_to_money_factor"
    /\ args[1] = FloatTimes(Float(125, 100000), 2400)
    /\ ret = Float(125, 100000)

\* C14: the months elapsed are clamped into [0, term]: for a valid loan
\* (principal > 0, rate >= 0, term > 0) every months_elapsed <= 0 returns the
\* full principal, and every months_elapsed >= term returns what
\* months_elapsed = term returns.
C14_ClampsMonthsElapsed ==
    (/\ fn = "remaining_loan_balance"
     /\ Positive(args[1])
     /\ NonNegative(args[2])
     /\ args[3] > 0) =>
        /\ args[4] <= 0 => ret = args[1]
        /\ args[4] >= args[3] =>
              ret = remaining_loan_balance(args[1], args[2], args[3], args[3])

\* what holds of the code: the same, at the rates of ordinary size
C14_AtOrdinaryRates ==
    (/\ fn = "remaining_loan_balance"
     /\ Positive(args[1])
     /\ NonNegative(args[2])
     /\ OrdinaryRate(args[2])
     /\ args[3] > 0) =>
        /\ args[4] <= 0 => ret = args[1]
        /\ args[4] >= args[3] =>
              ret = remaining_loan_balance(args[1], args[2], args[3], args[3])

\* and in a projection that is computed, the buy entries of the months past
\* the loan term are down payment + every payment of the loan + a balance
\* of zero - the value of the vehicle
C14_ZeroBalancePastLoanTerm ==
    Projected =>
        \A m \in 1..Len(buy_net_cost_by_month) :
            m > loan_term_months =>
                /\ remaining_loan_balance(loan_amount, loan_apr, loan_term_months, m) = Zero
                /\ buy_net_cost_by_month[m] =
                      RSub(RAdd(down_payment_buy,
                                RMul(buy_monthly_payment, R(loan_term_months))),
                           ValueOnLine(m))

\* a valid loan at a rate that 1 + r absorbs: the call before the first
\* month raises, it does not return the principal
C14_RaisesBeforeFirstMonth ==
    /\ fn = "remaining_loan_balance"
    /\ Positive(args[1])
    /\ Positive(args[2])
    /\ args[3] > 0
    /\ args[4] <= 0
    /\ ret = ZeroDivisionError

C14_BelowZeroReached ==
    /\ fn = "remaining_loan_balance"
    /\ Positive(args[1])
    /\ Positive(args[2])
    /\ args[3] > 0
    /\ args[4] < 0
    /\ ret = args[1]

C14_PastTermReached ==
    /\ fn = "remaining_loan_balance"
    /\ Positive(args[1])
    /\ Positive(args[2])
    /\ OrdinaryRate(args[2])
    /\ args[3] > 0
    /\ args[4] > args[3]
    /\ ret = Zero

C14_ProjectedPastLoanTermReached ==
    /\ pc = "done"
    /\ horizon_months > loan_term_months
    /\ Positive(loan_amount)
    /\ Positive(loan_apr)

\* the schedule of a valid loan on the payment monthly_loan_payment gives
AmortizedOnItsPayment ==
    /\ fn = "build_amortization_schedule"
    /\ Positive(args[1])
    /\ NonNegative(args[2])
    /\ args[3] > 0
    /\ args[4] = monthly_loan_payment(args[1], args[2], args[3])

\* C15: for a loan with principal > 0, rate >= 0, term > 0 and the payment
\* monthly_loan_payment(principal, rate, term), the schedule has one row per
\* month, the remaining balance of row m is
\* remaining_loan_balance(principal, rate, term, m), the principal portion
\* payment - interest is never below 0 (the clamp does not fire), and the
\* balance of the last row is 0.
C15_ScheduleMatchesClosedForm ==
    AmortizedOnItsPayment =>
        /\ Len(ret) = args[3]
        /\ \A m \in 1..Len(ret) :
              /\ ret[m].Month = m
              /\ ret[m].Remaining_balance =
                    remaining_loan_balance(args[1], args[2], args[3], m)
              /\ ~RLt(RSub(ret[m].Payment, ret[m].Interest), Zero)
              /\ ret[m].Principal = RSub(ret[m].Payment, ret[m].Interest)
        /\ ret[Len(ret)].Remaining_balance = Zero

C15_Witness ==
    /\ AmortizedOnItsPayment
    /\ Positive(args[2])
    /\ args[3] >= 3
    /\ Len(ret) = args[3]
    /\ Positive(ret[1].Interest)
    /\ Positive(ret[2].Remaining_balance)
    /\ ret[2].Remaining_balance = remaining_loan_balance(args[1], args[2], args[3], 2)
    /\ ret[Len(ret)].Remaining_balance = Zero

C15_ZeroRateReached ==
    /\ AmortizedOnItsPayment
    /\ args[2] = Zero
    /\ args[3] >= 2
    /\ ret[1].Interest = Zero
    /\ Positive(ret[1].Remaining_balance)

\* on a payment below the interest the clamp fires and the loan is not paid
C15_ClampFiresOnOtherPayment ==
    /\ fn = "build_amortization_schedule"
    /\ Positive(args[1])
    /\ args[3] > 0
    /\ RLt(RSub(ret[1].Payment, ret[1].Interest), Zero)
    /\ ret[1].Principal = Zero
    /\ ret[Len(ret)].Remaining_balance = args[1]

C16_NoLoanReached ==
    /\ pc = "done"
    /\ loan_amount = Zero
    /\ RLt(total_purchase_cost, down_payment_buy)
    /\ \A m \in 1..horizon_months : Positive(buy_net_cost_by_month[m])

====
